---- MODULE Spec2Model ----
(***************************************************************************)
(* agntor-cli: one invocation of a command of the CLI (index.ts), the      *)
(* Copilot CLI bridge (copilot.ts) and the print functions (ui.ts).        *)
(*                                                                         *)
(* Strings are sequences of characters.  A character is written as a short *)
(* TLA+ string: "ESC" is \x1B, "LF" is \n, "CR" is \r, "SP" is a blank,    *)
(* "BT" is a backtick.  "T", "A" and "m" are letters, "0" is a digit.      *)
(* The two usage-statistics markers of cleanOutput keep their leading      *)
(* newline and are shortened to their first letter and their final colon:  *)
(*   '\nTotal usage est:' is <<"LF", "T", ":">>,                           *)
(*   '\nAPI time spent:'  is <<"LF", "A", ":">>.                           *)
(* A scan input is a sequence of blank-separated words, some of them URLs. *)
(***************************************************************************)
EXTENDS Integers, Sequences, FiniteSets, TLC

VARIABLES
    mode,             \* which specification drives the run: "cmd" or "clean"
    raw,              \* cleanOutput: the raw subprocess output
    cleaned,          \* cleanOutput: the result, once computed
    cleanPc,          \* cleanOutput: "start" | "done"
    cmd,              \* the command invoked
    opts,             \* its options (ticket branch, level, agent, token, url)
    input,            \* inputParts.join(' '), as a sequence of words and URLs
    env,              \* what the @agntor/sdk adapters answer in this run
    pc,               \* the position of the command's action
    copilotAvailable, \* const copilotAvailable
    guardResult,      \* const guardResult / result of the guard command
    redactResult,     \* const redactResult / result of the redact command
    urlMatches,       \* const urlMatches
    i,                \* the position of the for loop in urlMatches
    ssrfResults,      \* const ssrfResults
    safe,             \* let safe of the ssrf command
    settleResult,     \* const result of the settle command
    ticketResult,     \* const result of ticket --validate
    decoded,          \* const decoded: <<>> for null, <<claims>> otherwise
    explanation,      \* const explanation / const analysis
    out,              \* what was printed, in order
    calls,            \* the adapter and subprocess calls made, in order
    exitCode          \* -1 while running, then the exit status

-----------------------------------------------------------------------------
(* Bounds *)

MaxPieces == 3
MaxInput == 2
\* the longest text given to renderMarkdown alone, in characters
MaxText == 5

-----------------------------------------------------------------------------
(* String helpers: the JavaScript String methods copilot.ts uses *)

Letters == {"T", "A", "m"}
Digits == {"0", ";"}
Whitespace == {"SP", "LF", "CR"}

\* s.substring(from, to) with 0-based from (inclusive) and to (exclusive)
Substring(s, from, to) == SubSeq(s, from + 1, to)

\* s.startsWith(m, at) with 0-based at
MatchesAt(s, m, at) ==
    /\ at + Len(m) <= Len(s)
    /\ \A k \in 1..Len(m) : s[at + k] = m[k]

\* s.indexOf(m): the 0-based index of the first occurrence, or -1
IndexOf(s, m) ==
    LET hits == {at \in 0..(Len(s) - Len(m)) : MatchesAt(s, m, at)}
    IN IF hits = {} THEN -1 ELSE CHOOSE at \in hits : \A o \in hits : at <= o

\* s.includes(m)
Includes(s, m) == IndexOf(s, m) # -1

RECURSIVE TrimStart(_)
TrimStart(s) ==
    IF s # <<>> /\ Head(s) \in Whitespace THEN TrimStart(Tail(s)) ELSE s

RECURSIVE TrimEnd(_)
TrimEnd(s) ==
    IF s # <<>> /\ s[Len(s)] \in Whitespace
    THEN TrimEnd(SubSeq(s, 1, Len(s) - 1))
    ELSE s

\* s.trim()
Trim(s) == TrimEnd(TrimStart(s))

-----------------------------------------------------------------------------
(* copilot.ts: cleanOutput *)

\* The length of the match of /\x1B\[[0-9;]*[a-zA-Z]/ starting at 1-based
\* position p of s, or 0 when the pattern does not match there.
RECURSIVE AnsiParams(_, _)
AnsiParams(s, p) ==
    IF p <= Len(s) /\ s[p] \in Digits THEN 1 + AnsiParams(s, p + 1) ELSE 0

AnsiMatchLen(s, p) ==
    IF p + 1 <= Len(s) /\ s[p] = "ESC" /\ s[p + 1] = "["
    THEN LET n == AnsiParams(s, p + 2)
             q == p + 2 + n
         IN IF q <= Len(s) /\ s[q] \in Letters THEN 3 + n ELSE 0
    ELSE 0

\* output.replace(/\x1B\[[0-9;]*[a-zA-Z]/g, ''): one left-to-right pass, the
\* text after a removed match is scanned on, the result is not scanned again.
RECURSIVE StripAnsiFrom(_, _)
StripAnsiFrom(s, p) ==
    IF p > Len(s) THEN <<>>
    ELSE LET n == AnsiMatchLen(s, p)
         IN IF n > 0 THEN StripAnsiFrom(s, p + n)
            ELSE <<s[p]>> \o StripAnsiFrom(s, p + 1)

StripAnsi(s) == StripAnsiFrom(s, 1)

\* .replace(/\r/g, '')
RemoveCR(s) == SelectSeq(s, LAMBDA c : c # "CR")

\* const markers = ['\nTotal usage est:', '\nAPI time spent:']
markers == << <<"LF", "T", ":">>, <<"LF", "A", ":">> >>

\* Defective variant: the loop keeps the index of the last marker found, not the smallest.
RECURSIVE EarliestLastWins(_, _, _)
EarliestLastWins(s, k, earliest) ==
    IF k > Len(markers) THEN earliest
    ELSE LET idx == IndexOf(s, markers[k])
         IN EarliestLastWins(s, k + 1, IF idx # -1 THEN idx ELSE earliest)

\* the for loop over markers: keeps the smallest index found
RECURSIVE EarliestFrom(_, _, _)
EarliestFrom(s, k, earliest) ==
    IF k > Len(markers) THEN earliest
    ELSE LET idx == IndexOf(s, markers[k])
         IN EarliestFrom(s, k + 1,
                IF idx # -1 /\ idx < earliest THEN idx ELSE earliest)

CleanOutput(output) ==
    LET stripped == RemoveCR(StripAnsi(output))
        earliest == EarliestFrom(stripped, 1, Len(stripped))
        cut == IF earliest < Len(stripped)
               THEN Substring(stripped, 0, earliest)
               ELSE stripped
    IN Trim(cut)

-----------------------------------------------------------------------------
(* copilot.ts: renderMarkdown.  chalk wraps a non-empty text in a style's   *)
(* opening and closing code; each code is one character here.               *)

Chalk(style, text) ==
    IF text = <<>> THEN <<>> ELSE <<"<" \o style \o ">">> \o text \o <<"</" \o style \o ">">>

\* text.split('\n'): the lines of s, at least one
RECURSIVE SplitLines(_)
SplitLines(s) ==
    LET at == IndexOf(s, <<"LF">>)
    IN IF at = -1 THEN <<s>>
       ELSE <<Substring(s, 0, at)>> \o SplitLines(SubSeq(s, at + 2, Len(s)))

\* lines.join('\n')
RECURSIVE JoinLines(_)
JoinLines(ls) ==
    IF Len(ls) = 1 THEN ls[1] ELSE ls[1] \o <<"LF">> \o JoinLines(Tail(ls))

\* the number of '#' at the start of the line
RECURSIVE LeadingHashes(_)
LeadingHashes(line) ==
    IF line # <<>> /\ Head(line) = "#" THEN 1 + LeadingHashes(Tail(line)) ELSE 0

\* Defective variant: a line starting with '#' is a heading whatever follows.
IsHeadingNoSpace(line) == LeadingHashes(line) \in 1..3

\* /^#{1,3}\s/.test(line)
IsHeading(line) ==
    LET h == LeadingHashes(line)
    IN h \in 1..3 /\ h < Len(line) /\ line[h + 1] \in Whitespace

\* line.replace(/^#{1,3}\s+/, '')
StripHeading(line) == TrimStart(SubSeq(line, LeadingHashes(line) + 1, Len(line)))

\* the number of characters other than d from 1-based position p on
RECURSIVE RunLen(_, _, _)
RunLen(s, p, d) ==
    IF p <= Len(s) /\ s[p] # d THEN 1 + RunLen(s, p + 1, d) ELSE 0

\* The length of the match, at 1-based position p, of n delimiters d, one or
\* more characters other than d, and n delimiters d again; 0 when there is
\* none.  lone: the span must not touch a further d on either side
\* ((?<!\*) and (?!\*) of the italic pattern).
SpanLen(s, p, d, n, lone) ==
    LET r == RunLen(s, p + n, d)
        e == p + 2 * n + r - 1
    IN IF /\ e <= Len(s)
          /\ r >= 1
          /\ \A k \in 0..(n - 1) : s[p + k] = d /\ s[p + n + r + k] = d
          /\ lone => /\ (p = 1 \/ s[p - 1] # d)
                     /\ (e = Len(s) \/ s[e + 1] # d)
       THEN 2 * n + r
       ELSE 0

\* line.replace(/<span>/g, (_, c) => chalk.<style>(c))
RECURSIVE ReplaceSpans(_, _, _, _, _, _)
ReplaceSpans(s, p, d, n, lone, style) ==
    IF p > Len(s) THEN <<>>
    ELSE LET m == SpanLen(s, p, d, n, lone)
         IN IF m > 0
            THEN Chalk(style, SubSeq(s, p + n, p + m - n - 1))
                     \o ReplaceSpans(s, p + m, d, n, lone, style)
            ELSE <<s[p]>> \o ReplaceSpans(s, p + 1, d, n, lone, style)

RenderLine(line) ==
    IF IsHeading(line) THEN Chalk("boldwhite", StripHeading(line))
    ELSE LET bold == ReplaceSpans(line, 1, "*", 2, FALSE, "bold")
             code == ReplaceSpans(bold, 1, "BT", 1, FALSE, "cyan")
         IN ReplaceSpans(code, 1, "*", 1, TRUE, "dim")

RenderMarkdown(text) ==
    LET ls == SplitLines(text)
    IN JoinLines([k \in 1..Len(ls) |-> RenderLine(ls[k])])

-----------------------------------------------------------------------------
(* copilot.ts: the gh subprocess.  An outcome of execFileAsync is how the   *)
(* child ended and what it wrote to standard output.  A call returns        *)
(* [threw, value]: threw tells whether its promise rejects.                 *)

\* stdout.includes('Copilot CLI'): the marker, first and last letter
CopilotMarker == <<"C", "I">>

ExecExits == {"ok", "nonzero", "timeout", "maxbuffer", "enoent"}

ProbeOutputs == { <<>>, <<"T">>, <<"C", "I">>, <<"T", "SP", "C", "I", "SP", "0">>, <<"C", "T", "I">> }

AskOutputs ==
    { <<>>, <<"SP", "LF">>, <<"T">>,
      <<"ESC", "[", "0", "m", "#", "SP", "T", "LF", "*", "*", "A", "*", "*", "LF", "T", ":">>,
      <<"LF", "A", ":", "SP", "0">> }

\* the timeout of the probe has no output cap: maxBuffer is the default
ProbeOutcomes == [exit : ExecExits, stdout : ProbeOutputs]
AskOutcomes == [exit : ExecExits, stdout : AskOutputs]

\* execFileAsync resolves only when the child exits with status 0 in time
ExecRejects(o) == o.exit # "ok"

\* Defective variant: no try/catch around the probe.
ProbeUncaught(o) ==
    IF ExecRejects(o) THEN [threw |-> TRUE, value |-> FALSE]
    ELSE [threw |-> FALSE, value |-> Includes(o.stdout, CopilotMarker)]

\* Defective variant: a successful exit is taken as availability, the marker is not looked for.
ProbeAnyOutput(o) == [threw |-> FALSE, value |-> ~ExecRejects(o)]

IsCopilotAvailable(o) ==
    IF ExecRejects(o) THEN [threw |-> FALSE, value |-> FALSE]
    ELSE [threw |-> FALSE, value |-> Includes(o.stdout, CopilotMarker)]

\* Defective variant: no try/catch around the explanation call.
AskUncaught(o) ==
    IF ExecRejects(o) THEN [threw |-> TRUE, value |-> <<>>]
    ELSE [threw |-> FALSE, value |-> CleanOutput(o.stdout)]

\* Defective variant: a failed call returns what the child had written so far.
AskKeepsPartial(o) == [threw |-> FALSE, value |-> CleanOutput(o.stdout)]

AskCopilot(o) ==
    IF ExecRejects(o) THEN [threw |-> FALSE, value |-> <<>>]
    ELSE [threw |-> FALSE, value |-> CleanOutput(o.stdout)]

\* const response = await askCopilot(prompt);
\* return response ? renderMarkdown(response) : '';
Explain(prompt, o) ==
    LET response == AskCopilot(o)
    IN [prompt |-> prompt,
        outcome |-> o,
        threw |-> response.threw,
        value |-> IF ~response.threw /\ response.value # <<>>
                  THEN RenderMarkdown(response.value)
                  ELSE <<>>]

-----------------------------------------------------------------------------
(* Raw outputs for cleanOutput: concatenations of at most MaxPieces pieces. *)
(* A piece is a single character or one of the multi-character strings the *)
(* function looks for.                                                      *)

Pieces ==
    { <<"T">>, <<"SP">>, <<"LF">>, <<"CR">>, <<"ESC">>, <<"[">>,
      <<"T", ":">>, <<"A", ":">>,
      <<"LF", "T", ":">>, <<"LF", "A", ":">>,
      <<"ESC", "[", "0", "m">> }

RECURSIVE RawOfLen(_)
RawOfLen(n) ==
    IF n = 0 THEN {<<>>}
    ELSE {r \o p : r \in RawOfLen(n - 1), p \in Pieces}

RawOutputs == UNION {RawOfLen(n) : n \in 0..MaxPieces}

-----------------------------------------------------------------------------
(* @agntor/sdk: what the adapters can answer.  The library is not part of   *)
(* the repository; an adapter's answer is fixed for the run in env.         *)

Urls == {"u1", "u2"}
Words == {"w"}
Inputs == UNION {[1..n -> Urls \cup Words] : n \in 0..MaxInput}

GuardOutcomes ==
    { [throws |-> FALSE, classification |-> "pass", violation_types |-> <<>>],
      [throws |-> FALSE, classification |-> "block", violation_types |-> <<"prompt-injection">>],
      [throws |-> TRUE, classification |-> "pass", violation_types |-> <<>>] }

RedactOutcomes ==
    { [throws |-> FALSE, findings |-> <<>>],
      [throws |-> FALSE, findings |-> <<"aws_key", "email", "aws_key">>],
      [throws |-> TRUE, findings |-> <<>>] }

SettleOutcomes ==
    { [throws |-> FALSE, classification |-> "pass", riskFactors |-> <<>>],
      [throws |-> FALSE, classification |-> "block", riskFactors |-> <<"zero-address">>],
      [throws |-> TRUE, classification |-> "pass", riskFactors |-> <<>>] }

NoGuard == [throws |-> FALSE, classification |-> "pass", violation_types |-> <<>>]
NoRedact == [throws |-> FALSE, findings |-> <<>>]
NoSettle == [throws |-> FALSE, classification |-> "pass", riskFactors |-> <<>>]

Levels == {"Bronze", "Silver", "Gold", "Platinum"}

\* Defective variant: Gold gets the ceiling of Silver.
MaxOpValueGoldAsSilver(level) ==
    IF level = "Platinum" THEN 10000
    ELSE IF level = "Gold" THEN 1000
    ELSE IF level = "Silver" THEN 1000
    ELSE 100

\* the constraints the ticket command gives generateTicket
MaxOpValue(level) ==
    IF level = "Platinum" THEN 10000
    ELSE IF level = "Gold" THEN 5000
    ELSE IF level = "Silver" THEN 1000
    ELSE 100

GenerateArgs(agent, level) ==
    [agentId |-> agent,
     auditLevel |-> level,
     max_op_value |-> MaxOpValue(level),
     kill_switch_active |-> FALSE,
     requires_x402_payment |-> level # "Bronze"]

\* A token: its claims, whether it parses, whether its signature verifies
\* and whether its expiry is past.
SuppliedClaims ==
    [agentId : {"agent-001"}, auditLevel : {"Bronze", "Gold"},
     max_op_value : {100}, kill_switch_active : BOOLEAN,
     requires_x402_payment : {FALSE}]

Tokens == [wellFormed : BOOLEAN, sigOk : BOOLEAN, expired : BOOLEAN, claims : SuppliedClaims]

NoToken ==
    [wellFormed |-> FALSE, sigOk |-> FALSE, expired |-> FALSE,
     claims |-> GenerateArgs("agent-001", "Bronze")]

GenerateTicket(args) ==
    [wellFormed |-> TRUE, sigOk |-> TRUE, expired |-> FALSE, claims |-> args]

DecodeTicket(token) == IF token.wellFormed THEN <<token.claims>> ELSE <<>>

\* Defective variant: the expiry is looked at before the signature.
ValidateExpiryFirst(token) ==
    IF ~token.wellFormed THEN [valid |-> FALSE, errorCode |-> "malformed"]
    ELSE IF token.expired THEN [valid |-> FALSE, errorCode |-> "expired"]
    ELSE IF ~token.sigOk THEN [valid |-> FALSE, errorCode |-> "signature-invalid"]
    ELSE [valid |-> TRUE, errorCode |-> ""]

ValidateTicketSync(token) ==
    IF ~token.wellFormed THEN [valid |-> FALSE, errorCode |-> "malformed"]
    ELSE IF ~token.sigOk THEN [valid |-> FALSE, errorCode |-> "signature-invalid"]
    ELSE IF token.expired THEN [valid |-> FALSE, errorCode |-> "expired"]
    ELSE [valid |-> TRUE, errorCode |-> ""]

Commands == {"scan", "guard", "redact", "ticket", "settle", "ssrf"}

NoOpts == [branch |-> "", level |-> "Silver", agent |-> "agent-001", token |-> NoToken, url |-> ""]

\* the ticket command takes the first of --generate, --decode, --validate
\* that is given: branch names the one taken
OptionsFor(c) ==
    IF c = "ticket"
    THEN {[NoOpts EXCEPT !.branch = "generate", !.level = l] : l \in Levels}
         \cup {[NoOpts EXCEPT !.branch = b, !.token = t] : b \in {"decode", "validate"}, t \in Tokens}
         \cup {[NoOpts EXCEPT !.branch = "none"]}
    ELSE IF c = "ssrf" THEN {[NoOpts EXCEPT !.url = u] : u \in Urls}
    ELSE {NoOpts}

\* input.match(/https?:\/\/[^\s"']+/g) || []: the URLs of the text, in the
\* order they stand in it
ExtractUrls(text) == SelectSeq(text, LAMBDA t : t \in Urls)

NoEnv == [guard |-> NoGuard, redact |-> NoRedact, ssrfFail |-> {}, settle |-> NoSettle, ticketThrows |-> FALSE]

\* ssrfFail: the positions in urlMatches whose validateUrl call fails
EnvFor(c, text) ==
    IF c = "scan"
    THEN {[NoEnv EXCEPT !.guard = g, !.redact = r, !.ssrfFail = f] :
             g \in GuardOutcomes, r \in RedactOutcomes,
             f \in SUBSET (1..Len(ExtractUrls(text)))}
    ELSE IF c = "guard" THEN {[NoEnv EXCEPT !.guard = g] : g \in GuardOutcomes}
    ELSE IF c = "redact" THEN {[NoEnv EXCEPT !.redact = r] : r \in RedactOutcomes}
    ELSE IF c = "settle" THEN {[NoEnv EXCEPT !.settle = r] : r \in SettleOutcomes}
    ELSE IF c = "ssrf" THEN {[NoEnv EXCEPT !.ssrfFail = f] : f \in SUBSET {1}}
    ELSE {[NoEnv EXCEPT !.ticketThrows = t] : t \in BOOLEAN}

-----------------------------------------------------------------------------
(* ui.ts: what the print functions put on the terminal.  A printed item is  *)
(* [k, d]: its kind and its content.  Blank lines are left out.             *)

P(k, d) == [k |-> k, d |-> d]

PrintGuardResult(classification, violations) ==
    <<P("guard", [label |-> IF classification = "block" THEN "BLOCKED" ELSE "PASS",
                  violations |-> IF classification = "block" THEN violations ELSE <<>>])>>

PrintRedactResult(findings) ==
    <<P("redact", [count |-> Len(findings),
                   types |-> {findings[k] : k \in 1..Len(findings)}])>>

PrintSsrfResult(url, isSafe) ==
    <<P("ssrf", [url |-> url, label |-> IF isSafe THEN "SAFE" ELSE "BLOCKED"])>>

PrintSettlementResult(r) ==
    <<P("settle", [label |-> IF r.classification = "block" THEN "BLOCKED" ELSE "PASS",
                   riskFactors |-> r.riskFactors])>>

DecodeFailed == "Failed to decode ticket. Invalid JWT format."

\* Defective variant: a ticket whose kill switch is active is shown as invalid.
PrintTicketFrozenInvalid(payload, valid, errorCode) ==
    LET frozen == payload # <<>> /\ payload[1].kill_switch_active
        ok == valid /\ ~frozen
    IN <<P("ticket",
           [label |-> IF ok THEN "VALID" ELSE "INVALID",
            errorCode |-> IF ok THEN ""
                          ELSE IF errorCode # "" THEN errorCode ELSE "Unknown error",
            level |-> IF payload = <<>> THEN "Unknown" ELSE payload[1].auditLevel,
            maxOpValue |-> IF payload = <<>> THEN 0 ELSE payload[1].max_op_value,
            killSwitch |-> IF payload = <<>> THEN "none"
                           ELSE IF frozen THEN "ACTIVE" ELSE "inactive"])>>

\* payload: <<>> for the empty object {}, <<claims>> otherwise
PrintTicketResult(payload, valid, errorCode) ==
    <<P("ticket",
        [label |-> IF valid THEN "VALID" ELSE "INVALID",
         errorCode |-> IF valid THEN ""
                       ELSE IF errorCode # "" THEN errorCode ELSE "Unknown error",
         level |-> IF payload = <<>> THEN "Unknown" ELSE payload[1].auditLevel,
         maxOpValue |-> IF payload = <<>> THEN 0 ELSE payload[1].max_op_value,
         killSwitch |-> IF payload = <<>> THEN "none"
                        ELSE IF payload[1].kill_switch_active THEN "ACTIVE" ELSE "inactive"])>>

\* if (!explanation) return;
PrintExplanation(title, text) ==
    IF text = <<>> THEN <<>>
    ELSE <<P("explanation", [title |-> title, text |-> text])>>

-----------------------------------------------------------------------------
(* copilot.ts: the six explanation calls.  The prompt is kept as the data   *)
(* templated into it.                                                       *)

ExplainGuardResult(text, violations, classification, o) ==
    Explain([kind |-> "guard", input |-> text, violations |-> violations,
             classification |-> classification], o)

ExplainRedactResult(findingTypes, count, o) ==
    Explain([kind |-> "redact", types |-> findingTypes, count |-> count], o)

ExplainTicket(payload, o) == Explain([kind |-> "ticket", payload |-> payload], o)

ExplainSettlementRisk(riskFactors, classification, o) ==
    Explain([kind |-> "settle", riskFactors |-> riskFactors,
             classification |-> classification], o)

ExplainSsrfResult(url, isSafe, o) ==
    Explain([kind |-> "ssrf", url |-> url, safe |-> isSafe], o)

FullSecurityAnalysis(text, g, r, urls, checked, o) ==
    Explain([kind |-> "full", input |-> text, guard |-> g, redact |-> r,
             urls |-> checked], o)

-----------------------------------------------------------------------------
(* index.ts: one command invocation *)

locals == <<copilotAvailable, guardResult, redactResult, urlMatches, i,
            ssrfResults, safe, settleResult, ticketResult, decoded, explanation>>
results == <<copilotAvailable, guardResult, redactResult, urlMatches, i,
             ssrfResults, safe, settleResult, ticketResult, decoded>>
given == <<mode, cmd, opts, input, env>>
cleanVars == <<raw, cleaned, cleanPc>>
vars == <<mode, raw, cleaned, cleanPc, cmd, opts, input, env, pc,
          copilotAvailable, guardResult, redactResult, urlMatches, i,
          ssrfResults, safe, settleResult, ticketResult, decoded, explanation,
          out, calls, exitCode>>

\* a call: the function called, its argument, and for the gh subprocess how
\* the child ended and what it wrote
Call(f, a) == [f |-> f, a |-> a, o |-> [exit |-> "ok", stdout |-> <<>>]]
GhCall(f, a, o) == [f |-> f, a |-> a, o |-> o]

NoResult == [valid |-> FALSE, errorCode |-> ""]

InitLocals ==
    /\ pc = "start"
    /\ copilotAvailable = FALSE
    /\ guardResult = NoGuard
    /\ redactResult = NoRedact
    /\ urlMatches = <<>>
    /\ i = 1
    /\ ssrfResults = <<>>
    /\ safe = FALSE
    /\ settleResult = NoSettle
    /\ ticketResult = NoResult
    /\ decoded = <<>>
    /\ explanation = <<>>
    /\ out = <<>>
    /\ calls = <<>>
    /\ exitCode = -1

Init ==
    /\ mode = "cmd"
    /\ raw = <<>> /\ cleaned = <<>> /\ cleanPc = "start"
    /\ cmd \in Commands
    /\ opts \in OptionsFor(cmd)
    /\ input \in (IF cmd \in {"scan", "guard", "redact"} THEN Inputs ELSE {<<>>})
    /\ env \in EnvFor(cmd, input)
    /\ InitLocals

\* where each command goes after the probe
AfterProbe(c) == IF c = "scan" THEN "guard" ELSE "run"

\* Defective variant: the probe has no timeout, a child that never exits leaves the await pending.
ProbeWaitsForever ==
    /\ mode = "cmd" /\ pc = "start"
    /\ \E o \in ProbeOutcomes :
         LET r == IsCopilotAvailable(o)
         IN /\ calls' = Append(calls, GhCall("probe", "", o))
            /\ IF o.exit = "timeout"
               THEN /\ pc' = "waiting"
                    /\ out' = Append(out, P("banner", ""))
                    /\ UNCHANGED copilotAvailable
               ELSE /\ pc' = AfterProbe(cmd)
                    /\ copilotAvailable' = r.value
                    /\ out' = out \o <<P("banner", ""), P("copilotStatus", r.value)>>
    /\ UNCHANGED <<given, cleanVars, guardResult, redactResult, urlMatches, i,
                   ssrfResults, safe, settleResult, ticketResult, decoded, explanation, exitCode>>

\* printBanner(); const copilotAvailable = await isCopilotAvailable();
\* printCopilotStatus(copilotAvailable);
Probe ==
    /\ mode = "cmd" /\ pc = "start"
    /\ \E o \in ProbeOutcomes :
         LET r == IsCopilotAvailable(o)
         IN /\ calls' = Append(calls, GhCall("probe", "", o))
            /\ IF r.threw
               THEN /\ pc' = "rejected"
                    /\ out' = Append(out, P("banner", ""))
                    /\ UNCHANGED copilotAvailable
               ELSE /\ pc' = AfterProbe(cmd)
                    /\ copilotAvailable' = r.value
                    /\ out' = out \o <<P("banner", ""), P("copilotStatus", r.value)>>
    /\ UNCHANGED <<given, cleanVars, guardResult, redactResult, urlMatches, i,
                   ssrfResults, safe, settleResult, ticketResult, decoded, explanation, exitCode>>

\* Defective variant: an explanation that came back empty is asked for a second time.
EnrichRetry(title, e, next) ==
    /\ calls' = calls \o (IF e.value = <<>>
                           THEN <<GhCall("ask", e.prompt, e.outcome), GhCall("ask", e.prompt, e.outcome)>>
                           ELSE <<GhCall("ask", e.prompt, e.outcome)>>)
    /\ pc' = next
    /\ explanation' = e.value
    /\ out' = out \o PrintExplanation(title, e.value)

\* an explanation call and printExplanation(title, explanation)
Enrich(title, e, next) ==
    /\ calls' = Append(calls, GhCall("ask", e.prompt, e.outcome))
    /\ IF e.threw
       THEN pc' = "rejected" /\ out' = out /\ explanation' = explanation
       ELSE /\ pc' = next
            /\ explanation' = e.value
            /\ out' = out \o PrintExplanation(title, e.value)

\* ---- scan ----

\* Defective variant: a blocked input goes straight to the URL check, redaction is skipped.
ScanGuardBlockSkips ==
    /\ mode = "cmd" /\ cmd = "scan" /\ pc = "guard"
    /\ calls' = Append(calls, Call("guard", input))
    /\ IF env.guard.throws
       THEN /\ pc' = "rejected"
            /\ out' = out \o <<P("fullScanHeader", input), P("section", "guard")>>
            /\ UNCHANGED guardResult
       ELSE /\ pc' = IF env.guard.classification = "block" THEN "validate" ELSE "redact"
            /\ guardResult' = env.guard
            /\ out' = out \o <<P("fullScanHeader", input), P("section", "guard")>>
                          \o PrintGuardResult(env.guard.classification, env.guard.violation_types)
    /\ UNCHANGED <<given, cleanVars, copilotAvailable, redactResult, urlMatches, i,
                   ssrfResults, safe, settleResult, ticketResult, decoded, explanation, exitCode>>

\* Step 1: const guardResult = await guard(input, defaultPolicy);
ScanGuard ==
    /\ mode = "cmd" /\ cmd = "scan" /\ pc = "guard"
    /\ calls' = Append(calls, Call("guard", input))
    /\ IF env.guard.throws
       THEN /\ pc' = "rejected"
            /\ out' = out \o <<P("fullScanHeader", input), P("section", "guard")>>
            /\ UNCHANGED guardResult
       ELSE /\ pc' = "redact"
            /\ guardResult' = env.guard
            /\ out' = out \o <<P("fullScanHeader", input), P("section", "guard")>>
                          \o PrintGuardResult(env.guard.classification, env.guard.violation_types)
    /\ UNCHANGED <<given, cleanVars, copilotAvailable, redactResult, urlMatches, i,
                   ssrfResults, safe, settleResult, ticketResult, decoded, explanation, exitCode>>

\* Step 2: const redactResult = redact(input, defaultPolicy);
\* then const urlMatches = input.match(...) || [] and the SSRF header
ScanRedact ==
    /\ mode = "cmd" /\ cmd = "scan" /\ pc = "redact"
    /\ calls' = Append(calls, Call("redact", input))
    /\ IF env.redact.throws
       THEN /\ pc' = "rejected"
            /\ out' = Append(out, P("section", "redact"))
            /\ UNCHANGED <<redactResult, urlMatches, i, ssrfResults>>
       ELSE /\ pc' = "validate"
            /\ redactResult' = env.redact
            /\ urlMatches' = ExtractUrls(input)
            /\ i' = 1
            /\ ssrfResults' = <<>>
            /\ out' = out \o <<P("section", "redact")>>
                          \o PrintRedactResult(env.redact.findings)
                          \o (IF Len(ExtractUrls(input)) > 0
                              THEN <<P("section", "ssrf")>> ELSE <<>>)
    /\ UNCHANGED <<given, cleanVars, copilotAvailable, guardResult, safe,
                   settleResult, ticketResult, decoded, explanation, exitCode>>

\* Defective variant: no try/catch around validateUrl, a failure rejects the action.
ValidateUncaught(url, fails) ==
    IF fails
    THEN [printed |-> <<>>, pushed |-> <<>>, threw |-> TRUE]
    ELSE [printed |-> PrintSsrfResult(url, TRUE), pushed |-> <<[url |-> url, safe |-> TRUE]>>, threw |-> FALSE]

\* Defective variant: the catch branch prints the outcome and records nothing.
ValidateFailureNotPushed(url, fails) ==
    IF fails
    THEN [printed |-> PrintSsrfResult(url, FALSE), pushed |-> <<>>, threw |-> FALSE]
    ELSE [printed |-> PrintSsrfResult(url, TRUE), pushed |-> <<[url |-> url, safe |-> TRUE]>>, threw |-> FALSE]

\* the outcome of try { await validateUrl(url); ... } catch (err) { ... }
\* for the URL at position k: what is printed and what is pushed
ValidateOutcome(url, fails) ==
    IF fails
    THEN [printed |-> PrintSsrfResult(url, FALSE), pushed |-> <<[url |-> url, safe |-> FALSE]>>, threw |-> FALSE]
    ELSE [printed |-> PrintSsrfResult(url, TRUE), pushed |-> <<[url |-> url, safe |-> TRUE]>>, threw |-> FALSE]

\* Step 3: one turn of for (const url of urlMatches)
ScanValidate ==
    /\ mode = "cmd" /\ cmd = "scan" /\ pc = "validate"
    /\ i <= Len(urlMatches)
    /\ LET v == ValidateOutcome(urlMatches[i], i \in env.ssrfFail)
       IN /\ calls' = Append(calls, Call("validateUrl", urlMatches[i]))
          /\ out' = out \o v.printed
          /\ ssrfResults' = ssrfResults \o v.pushed
          /\ IF v.threw THEN pc' = "rejected" /\ i' = i
             ELSE pc' = "validate" /\ i' = i + 1
    /\ UNCHANGED <<given, cleanVars, copilotAvailable, guardResult, redactResult,
                   urlMatches, safe, settleResult, ticketResult, decoded, explanation, exitCode>>

\* Defective variant: the combined assessment is asked for whatever the probe said.
ScanDividerAlwaysAnalyses ==
    /\ mode = "cmd" /\ cmd = "scan" /\ pc = "validate"
    /\ i > Len(urlMatches)
    /\ out' = Append(out, P("divider", ""))
    /\ pc' = "analysis"
    /\ UNCHANGED <<given, cleanVars, locals, calls, exitCode>>

\* the loop is over: printDivider(); if (copilotAvailable) ...
ScanDivider ==
    /\ mode = "cmd" /\ cmd = "scan" /\ pc = "validate"
    /\ i > Len(urlMatches)
    /\ out' = Append(out, P("divider", ""))
    /\ pc' = IF copilotAvailable THEN "analysis" ELSE "footer"
    /\ UNCHANGED <<given, cleanVars, locals, calls, exitCode>>

\* urlMatches.map(u => ({ url: u, safe: true })) // simplified
AnalysisUrls(urls, recorded) == [k \in 1..Len(urls) |-> [url |-> urls[k], safe |-> TRUE]]

\* Step 4: const analysis = await fullSecurityAnalysis(...)
ScanAnalysis ==
    /\ mode = "cmd" /\ cmd = "scan" /\ pc = "analysis"
    /\ \E o \in AskOutcomes :
         Enrich("Threat Assessment",
                FullSecurityAnalysis(input,
                    [classification |-> guardResult.classification,
                     violations |-> guardResult.violation_types],
                    [count |-> Len(redactResult.findings),
                     types |-> {redactResult.findings[k] : k \in 1..Len(redactResult.findings)}],
                    urlMatches, AnalysisUrls(urlMatches, ssrfResults), o),
                "footer")
    /\ UNCHANGED <<given, cleanVars, results, exitCode>>

\* ---- guard ----

\* Defective variant: the guard command asks for an explanation whatever the classification.
GuardRunAlwaysExplains ==
    /\ mode = "cmd" /\ cmd = "guard" /\ pc = "run"
    /\ calls' = Append(calls, Call("guard", input))
    /\ IF env.guard.throws
       THEN /\ pc' = "rejected"
            /\ out' = Append(out, P("section", "guard"))
            /\ UNCHANGED guardResult
       ELSE /\ guardResult' = env.guard
            /\ out' = out \o <<P("section", "guard")>>
                          \o PrintGuardResult(env.guard.classification, env.guard.violation_types)
            /\ pc' = IF copilotAvailable THEN "explain" ELSE "footer"
    /\ UNCHANGED <<given, cleanVars, copilotAvailable, redactResult, urlMatches, i,
                   ssrfResults, safe, settleResult, ticketResult, decoded, explanation, exitCode>>

\* Defective variant: a guard call that throws is caught and the command goes on to its footer.
GuardRunSwallows ==
    /\ mode = "cmd" /\ cmd = "guard" /\ pc = "run"
    /\ calls' = Append(calls, Call("guard", input))
    /\ IF env.guard.throws
       THEN /\ pc' = "footer"
            /\ out' = Append(out, P("section", "guard"))
            /\ UNCHANGED guardResult
       ELSE /\ guardResult' = env.guard
            /\ out' = out \o <<P("section", "guard")>>
                          \o PrintGuardResult(env.guard.classification, env.guard.violation_types)
            /\ pc' = IF copilotAvailable /\ env.guard.classification = "block"
                     THEN "explain" ELSE "footer"
    /\ UNCHANGED <<given, cleanVars, copilotAvailable, redactResult, urlMatches, i,
                   ssrfResults, safe, settleResult, ticketResult, decoded, explanation, exitCode>>

GuardRun ==
    /\ mode = "cmd" /\ cmd = "guard" /\ pc = "run"
    /\ calls' = Append(calls, Call("guard", input))
    /\ IF env.guard.throws
       THEN /\ pc' = "rejected"
            /\ out' = Append(out, P("section", "guard"))
            /\ UNCHANGED guardResult
       ELSE /\ guardResult' = env.guard
            /\ out' = out \o <<P("section", "guard")>>
                          \o PrintGuardResult(env.guard.classification, env.guard.violation_types)
            /\ pc' = IF copilotAvailable /\ env.guard.classification = "block"
                     THEN "explain" ELSE "footer"
    /\ UNCHANGED <<given, cleanVars, copilotAvailable, redactResult, urlMatches, i,
                   ssrfResults, safe, settleResult, ticketResult, decoded, explanation, exitCode>>

GuardExplain ==
    /\ mode = "cmd" /\ cmd = "guard" /\ pc = "explain"
    /\ \E o \in AskOutcomes :
         Enrich("Why This Was Blocked",
                ExplainGuardResult(input, guardResult.violation_types,
                                   guardResult.classification, o),
                "footer")
    /\ UNCHANGED <<given, cleanVars, results, exitCode>>

\* ---- redact ----

RedactRun ==
    /\ mode = "cmd" /\ cmd = "redact" /\ pc = "run"
    /\ calls' = Append(calls, Call("redact", input))
    /\ IF env.redact.throws
       THEN /\ pc' = "rejected"
            /\ out' = Append(out, P("section", "redact"))
            /\ UNCHANGED redactResult
       ELSE /\ redactResult' = env.redact
            /\ out' = out \o <<P("section", "redact")>>
                          \o PrintRedactResult(env.redact.findings)
            /\ pc' = IF copilotAvailable /\ Len(env.redact.findings) > 0
                     THEN "explain" ELSE "footer"
    /\ UNCHANGED <<given, cleanVars, copilotAvailable, guardResult, urlMatches, i,
                   ssrfResults, safe, settleResult, ticketResult, decoded, explanation, exitCode>>

RedactExplain ==
    /\ mode = "cmd" /\ cmd = "redact" /\ pc = "explain"
    /\ \E o \in AskOutcomes :
         Enrich("Secret Analysis",
                ExplainRedactResult({redactResult.findings[k] : k \in 1..Len(redactResult.findings)},
                                    Len(redactResult.findings), o),
                "footer")
    /\ UNCHANGED <<given, cleanVars, results, exitCode>>

\* ---- ticket ----

TicketGenerate ==
    /\ mode = "cmd" /\ cmd = "ticket" /\ pc = "run" /\ opts.branch = "generate"
    /\ IF env.ticketThrows
       THEN /\ calls' = Append(calls, Call("generateTicket", opts.level))
            /\ pc' = "rejected"
            /\ out' = Append(out, P("section", "ticket"))
            /\ UNCHANGED decoded
       ELSE LET token == GenerateTicket(GenerateArgs(opts.agent, opts.level))
                d == DecodeTicket(token)
            IN /\ calls' = calls \o <<Call("generateTicket", opts.level), Call("decodeTicket", token)>>
               /\ decoded' = d
               /\ out' = out \o <<P("section", "ticket"), P("token", token)>>
                             \o (IF d # <<>> THEN PrintTicketResult(d, TRUE, "") ELSE <<>>)
               /\ pc' = IF d # <<>> /\ copilotAvailable THEN "explain" ELSE "footer"
    /\ UNCHANGED <<given, cleanVars, copilotAvailable, guardResult, redactResult,
                   urlMatches, i, ssrfResults, safe, settleResult, ticketResult, explanation, exitCode>>

\* Defective variant: a token that does not decode is passed over in silence.
TicketDecodeSilent ==
    /\ mode = "cmd" /\ cmd = "ticket" /\ pc = "run" /\ opts.branch = "decode"
    /\ calls' = Append(calls, Call("decodeTicket", opts.token))
    /\ IF env.ticketThrows
       THEN /\ pc' = "rejected"
            /\ out' = Append(out, P("section", "ticket"))
            /\ UNCHANGED decoded
       ELSE LET d == DecodeTicket(opts.token)
            IN /\ decoded' = d
               /\ out' = out \o <<P("section", "ticket")>>
                             \o (IF d # <<>> THEN PrintTicketResult(d, TRUE, "") ELSE <<>>)
               /\ pc' = IF d # <<>> /\ copilotAvailable THEN "explain" ELSE "footer"
    /\ UNCHANGED <<given, cleanVars, copilotAvailable, guardResult, redactResult,
                   urlMatches, i, ssrfResults, safe, settleResult, ticketResult, explanation, exitCode>>

TicketDecode ==
    /\ mode = "cmd" /\ cmd = "ticket" /\ pc = "run" /\ opts.branch = "decode"
    /\ calls' = Append(calls, Call("decodeTicket", opts.token))
    /\ IF env.ticketThrows
       THEN /\ pc' = "rejected"
            /\ out' = Append(out, P("section", "ticket"))
            /\ UNCHANGED decoded
       ELSE LET d == DecodeTicket(opts.token)
            IN /\ decoded' = d
               /\ out' = out \o <<P("section", "ticket")>>
                             \o (IF d # <<>> THEN PrintTicketResult(d, TRUE, "")
                                 ELSE <<P("error", DecodeFailed)>>)
               /\ pc' = IF d # <<>> /\ copilotAvailable THEN "explain" ELSE "footer"
    /\ UNCHANGED <<given, cleanVars, copilotAvailable, guardResult, redactResult,
                   urlMatches, i, ssrfResults, safe, settleResult, ticketResult, explanation, exitCode>>

\* Defective variant: the claims are decoded and shown only for a token that validated.
TicketValidateDecodeIfValid ==
    /\ mode = "cmd" /\ cmd = "ticket" /\ pc = "run" /\ opts.branch = "validate"
    /\ IF env.ticketThrows
       THEN /\ calls' = Append(calls, Call("validateTicketSync", opts.token))
            /\ pc' = "rejected"
            /\ out' = Append(out, P("section", "ticket"))
            /\ UNCHANGED <<decoded, ticketResult>>
       ELSE LET result == ValidateTicketSync(opts.token)
                d == IF result.valid THEN DecodeTicket(opts.token) ELSE <<>>
            IN /\ calls' = calls \o <<Call("validateTicketSync", opts.token)>>
                             \o (IF result.valid THEN <<Call("decodeTicket", opts.token)>> ELSE <<>>)
               /\ ticketResult' = result
               /\ decoded' = d
               /\ out' = out \o <<P("section", "ticket")>>
                             \o PrintTicketResult(d, result.valid, result.errorCode)
               /\ pc' = IF copilotAvailable /\ d # <<>> THEN "explain" ELSE "footer"
    /\ UNCHANGED <<given, cleanVars, copilotAvailable, guardResult, redactResult,
                   urlMatches, i, ssrfResults, safe, settleResult, explanation, exitCode>>

TicketValidate ==
    /\ mode = "cmd" /\ cmd = "ticket" /\ pc = "run" /\ opts.branch = "validate"
    /\ IF env.ticketThrows
       THEN /\ calls' = Append(calls, Call("validateTicketSync", opts.token))
            /\ pc' = "rejected"
            /\ out' = Append(out, P("section", "ticket"))
            /\ UNCHANGED <<decoded, ticketResult>>
       ELSE LET result == ValidateTicketSync(opts.token)
                d == DecodeTicket(opts.token)
            IN /\ calls' = calls \o <<Call("validateTicketSync", opts.token),
                                       Call("decodeTicket", opts.token)>>
               /\ ticketResult' = result
               /\ decoded' = d
               /\ out' = out \o <<P("section", "ticket")>>
                             \o PrintTicketResult(d, result.valid, result.errorCode)
               /\ pc' = IF copilotAvailable /\ d # <<>> THEN "explain" ELSE "footer"
    /\ UNCHANGED <<given, cleanVars, copilotAvailable, guardResult, redactResult,
                   urlMatches, i, ssrfResults, safe, settleResult, explanation, exitCode>>

TicketHelp ==
    /\ mode = "cmd" /\ cmd = "ticket" /\ pc = "run" /\ opts.branch = "none"
    /\ out' = out \o <<P("section", "ticket"),
                       P("info", "Use --generate, --decode <token>, or --validate <token>")>>
    /\ pc' = "footer"
    /\ UNCHANGED <<given, cleanVars, locals, calls, exitCode>>

TicketExplain ==
    /\ mode = "cmd" /\ cmd = "ticket" /\ pc = "explain"
    /\ \E o \in AskOutcomes :
         Enrich("Ticket Analysis", ExplainTicket(decoded[1], o), "footer")
    /\ UNCHANGED <<given, cleanVars, results, exitCode>>

\* ---- settle ----

SettleRun ==
    /\ mode = "cmd" /\ cmd = "settle" /\ pc = "run"
    /\ calls' = Append(calls, Call("settlementGuard", ""))
    /\ IF env.settle.throws
       THEN /\ pc' = "rejected"
            /\ out' = Append(out, P("section", "settle"))
            /\ UNCHANGED settleResult
       ELSE /\ settleResult' = env.settle
            /\ out' = out \o <<P("section", "settle")>> \o PrintSettlementResult(env.settle)
            /\ pc' = IF copilotAvailable THEN "explain" ELSE "footer"
    /\ UNCHANGED <<given, cleanVars, copilotAvailable, guardResult, redactResult,
                   urlMatches, i, ssrfResults, safe, ticketResult, decoded, explanation, exitCode>>

SettleExplain ==
    /\ mode = "cmd" /\ cmd = "settle" /\ pc = "explain"
    /\ \E o \in AskOutcomes :
         Enrich("Risk Explanation",
                ExplainSettlementRisk(settleResult.riskFactors, settleResult.classification, o),
                "footer")
    /\ UNCHANGED <<given, cleanVars, results, exitCode>>

\* ---- ssrf ----

\* let safe = false; try { await validateUrl(url); safe = true; ... }
\* catch (err) { ... }

SsrfRun ==
    /\ mode = "cmd" /\ cmd = "ssrf" /\ pc = "run"
    /\ calls' = Append(calls, Call("validateUrl", opts.url))
    /\ safe' = (1 \notin env.ssrfFail)
    /\ out' = out \o <<P("section", "ssrf")>> \o PrintSsrfResult(opts.url, 1 \notin env.ssrfFail)
    /\ pc' = IF copilotAvailable THEN "explain" ELSE "footer"
    /\ UNCHANGED <<given, cleanVars, copilotAvailable, guardResult, redactResult,
                   urlMatches, i, ssrfResults, settleResult, ticketResult, decoded, explanation, exitCode>>

SsrfExplain ==
    /\ mode = "cmd" /\ cmd = "ssrf" /\ pc = "explain"
    /\ \E o \in AskOutcomes :
         Enrich("SSRF Explanation", ExplainSsrfResult(opts.url, safe, o), "footer")
    /\ UNCHANGED <<given, cleanVars, results, exitCode>>

\* ---- the end of every command ----

\* Defective variant: a command that found something to block ends with status 1.
FooterFailsOnBlock ==
    /\ mode = "cmd" /\ pc = "footer"
    /\ out' = Append(out, P("footer", ""))
    /\ pc' = "done"
    /\ exitCode' = IF \E k \in 1..Len(out) :
                        /\ out[k].k \in {"guard", "ssrf", "settle", "ticket"}
                        /\ out[k].d.label \in {"BLOCKED", "INVALID"}
                    THEN 1 ELSE 0
    /\ UNCHANGED <<given, cleanVars, locals, calls>>

\* printFooter(); the action's promise resolves and the process ends
Footer ==
    /\ mode = "cmd" /\ pc = "footer"
    /\ out' = Append(out, P("footer", ""))
    /\ pc' = "done"
    /\ exitCode' = 0
    /\ UNCHANGED <<given, cleanVars, locals, calls>>

\* process.on('unhandledRejection', ...): printError(...); process.exit(1)
UnhandledRejection ==
    /\ mode = "cmd" /\ pc = "rejected"
    /\ out' = Append(out, P("error", "Unexpected error"))
    /\ pc' = "exited"
    /\ exitCode' = 1
    /\ UNCHANGED <<given, cleanVars, locals, calls>>

Next ==
    \/ Probe
    \/ ScanGuard \/ ScanRedact \/ ScanValidate \/ ScanDivider \/ ScanAnalysis
    \/ GuardRun \/ GuardExplain
    \/ RedactRun \/ RedactExplain
    \/ TicketGenerate \/ TicketDecode \/ TicketValidate \/ TicketHelp \/ TicketExplain
    \/ SettleRun \/ SettleExplain
    \/ SsrfRun \/ SsrfExplain
    \/ Footer \/ UnhandledRejection

Spec == Init /\ [][Next]_vars

\* Every await of an action resolves or rejects (the subprocess calls carry
\* a timeout, the adapter calls return), and the event loop runs every
\* continuation that is ready: a step that can be taken is taken.
SpecFair == Spec /\ WF_vars(Next)

-----------------------------------------------------------------------------
(* Properties of a command invocation *)

InCmd == mode = "cmd"
IsScan == InCmd /\ cmd = "scan"

CallsOf(f) == SelectSeq(calls, LAMBDA c : c.f = f)
Count(f) == Len(CallsOf(f))
Printed(k) == SelectSeq(out, LAMBDA e : e.k = k)

\* the positions of the URLs in a text and the URLs in the order they stand
UrlPositions(text) == {k \in 1..Len(text) : text[k] \in Urls}
NumUrls(text) == Cardinality(UrlPositions(text))
NthUrl(text, n) ==
    text[CHOOSE k \in UrlPositions(text) :
            Cardinality({m \in UrlPositions(text) : m <= k}) = n]
UrlsInOrder(text) == [n \in 1..NumUrls(text) |-> NthUrl(text, n)]

LoopOver == pc \in {"analysis", "footer", "done"} \/ (pc = "validate" /\ i > Len(urlMatches))

AdapterThrows ==
    \/ env.guard.throws
    \/ env.redact.throws
    \/ env.settle.throws
    \/ (env.ticketThrows /\ opts.branch # "none")

GhFailed(f) == \E k \in 1..Len(calls) : calls[k].f = f /\ calls[k].o.exit # "ok"

\* C2: in the scan command every extracted URL is validated and gets exactly
\* one outcome, printed and recorded, safe or blocked as its validateUrl call
\* went; a failed validation never rejects the action, and a finished scan
\* has printed the divider after the outcomes and the footer last.
C2_EveryUrlValidated ==
    IsScan =>
        /\ LoopOver =>
              /\ Count("validateUrl") = NumUrls(input)
              /\ Len(ssrfResults) = NumUrls(input)
              /\ Len(Printed("ssrf")) = NumUrls(input)
              /\ \A k \in 1..NumUrls(input) :
                    /\ k <= Len(ssrfResults) /\ k <= Len(Printed("ssrf"))
                    /\ ssrfResults[k].safe = (k \notin env.ssrfFail)
                    /\ Printed("ssrf")[k].d.label =
                          (IF k \in env.ssrfFail THEN "BLOCKED" ELSE "SAFE")
        /\ pc \in {"rejected", "exited"} => Count("validateUrl") = 0
        /\ pc = "done" =>
              /\ Len(Printed("divider")) = 1
              /\ out[Len(out)].k = "footer"
              /\ \A a, b \in 1..Len(out) :
                    out[a].k = "ssrf" /\ out[b].k = "divider" => a < b

C2_Witness ==
    /\ IsScan /\ pc = "done"
    /\ NumUrls(input) >= 2
    /\ 1 \in env.ssrfFail /\ 2 \notin env.ssrfFail
    /\ Len(ssrfResults) = 2
    /\ ~ssrfResults[1].safe /\ ssrfResults[2].safe

\* C3: the per-URL outcomes of a scan, as printed and as recorded in
\* ssrfResults, name the URLs of the input text in the order they stand in
\* it: at any moment a prefix of that order, and all of it once the loop is
\* over, whichever validations failed.
C3_OutcomeOrder ==
    IsScan =>
        LET want == UrlsInOrder(input)
            shown == Printed("ssrf")
        IN /\ Len(ssrfResults) <= Len(want)
           /\ Len(shown) = Len(ssrfResults)
           /\ \A k \in 1..Len(ssrfResults) :
                 /\ ssrfResults[k].url = want[k]
                 /\ shown[k].d.url = want[k]
           /\ LoopOver => Len(ssrfResults) = Len(want)

C3_Witness ==
    /\ IsScan /\ LoopOver
    /\ input = <<"u2", "u1">>
    /\ env.ssrfFail = {1}
    /\ ssrfResults = <<[url |-> "u2", safe |-> FALSE], [url |-> "u1", safe |-> TRUE]>>

Rank(f) ==
    CASE f = "probe" -> 0
      [] f = "guard" -> 1
      [] f = "redact" -> 2
      [] f = "validateUrl" -> 3
      [] f = "ask" -> 4
      [] OTHER -> 5

\* C4: the calls of a scan come in the order probe, guard, redaction, URL
\* validations, explanation request; guard and redaction are each called
\* once, whatever the other answered and whether or not the text holds
\* URLs; the explanation is requested only when the probe said available,
\* and only after every URL was validated.
C4_FixedOrder ==
    IsScan =>
        /\ \A a, b \in 1..Len(calls) : a < b => Rank(calls[a].f) <= Rank(calls[b].f)
        /\ \A k \in 1..Len(calls) : Rank(calls[k].f) < 5
        /\ Count("guard") <= 1 /\ Count("redact") <= 1 /\ Count("ask") <= 1
        /\ pc \in {"redact", "validate", "analysis", "footer", "done"} => Count("guard") = 1
        /\ pc \in {"validate", "analysis", "footer", "done"} => Count("redact") = 1
        /\ Count("ask") > 0 =>
              /\ copilotAvailable
              /\ Count("validateUrl") = NumUrls(input)

C4_Witness ==
    /\ IsScan /\ pc = "done"
    /\ guardResult.classification = "block"
    /\ Len(redactResult.findings) > 0
    /\ NumUrls(input) = 0
    /\ Count("guard") = 1 /\ Count("redact") = 1 /\ Count("ask") = 1

\* the findings printed: the guard, redaction, URL, settlement and ticket
\* results and the decode failure message
IsFinding(e) ==
    \/ e.k \in {"guard", "redact", "ssrf", "settle", "ticket"}
    \/ (e.k = "error" /\ e.d = DecodeFailed)
Findings == SelectSeq(out, IsFinding)

SameItems(a, b) ==
    /\ Len(a) = Len(b)
    /\ \A k \in 1..Len(a) : a[k].k = b[k].k /\ a[k].d = b[k].d

\* the findings of a finished run, from the command, its input and options
\* and the adapters' answers alone
SsrfItems ==
    [n \in 1..NumUrls(input) |->
        PrintSsrfResult(NthUrl(input, n), n \notin env.ssrfFail)[1]]

TicketItems ==
    IF opts.branch = "none" \/ env.ticketThrows THEN <<>>
    ELSE IF opts.branch = "generate"
    THEN PrintTicketResult(<<GenerateArgs(opts.agent, opts.level)>>, TRUE, "")
    ELSE IF opts.branch = "decode"
    THEN (IF opts.token.wellFormed
          THEN PrintTicketResult(<<opts.token.claims>>, TRUE, "")
          ELSE <<P("error", DecodeFailed)>>)
    ELSE PrintTicketResult(DecodeTicket(opts.token),
                           ValidateTicketSync(opts.token).valid,
                           ValidateTicketSync(opts.token).errorCode)

GuardItems ==
    IF env.guard.throws THEN <<>>
    ELSE PrintGuardResult(env.guard.classification, env.guard.violation_types)

RedactItems ==
    IF env.redact.throws THEN <<>> ELSE PrintRedactResult(env.redact.findings)

ExpectedFindings ==
    CASE cmd = "scan" ->
            (IF env.guard.throws THEN <<>>
             ELSE IF env.redact.throws THEN GuardItems
             ELSE GuardItems \o RedactItems \o SsrfItems)
      [] cmd = "guard" -> GuardItems
      [] cmd = "redact" -> RedactItems
      [] cmd = "ticket" -> TicketItems
      [] cmd = "settle" ->
            (IF env.settle.throws THEN <<>> ELSE PrintSettlementResult(env.settle))
      [] cmd = "ssrf" -> PrintSsrfResult(opts.url, 1 \notin env.ssrfFail)

\* C5: the findings a command prints (guard classification and violations,
\* redaction findings, per-URL outcomes, settlement result, ticket outcome)
\* are decided by the command, its input and the adapters' answers alone:
\* whatever the probe and the explanation subprocess do, a finished run has
\* printed exactly these findings, and a running one a prefix of them.
C5_FindingsIndependentOfSubprocess ==
    InCmd =>
        /\ Len(Findings) <= Len(ExpectedFindings)
        /\ SameItems(Findings, SubSeq(ExpectedFindings, 1, Len(Findings)))
        /\ pc \in {"done", "exited"} => Len(Findings) = Len(ExpectedFindings)

C5_Witness ==
    /\ IsScan /\ pc = "done"
    /\ copilotAvailable
    /\ GhFailed("ask")
    /\ explanation = <<>>
    /\ Len(Findings) = 4
    /\ guardResult.classification = "block"

\* C6: when no adapter throws, no behaviour of the probe or of the
\* explanation subprocess brings a command to the unhandled-rejection
\* handler or to exit status 1; the command can always take its next step
\* until it is done, and a finished command has printed its footer last,
\* at most one explanation box and no error, and ends with status 0.
C6_SubprocessNeverFailsCommand ==
    (InCmd /\ ~AdapterThrows) =>
        /\ pc \notin {"rejected", "exited"}
        /\ exitCode # 1
        /\ pc # "done" => ENABLED Next
        /\ pc = "done" =>
              /\ exitCode = 0
              /\ out[Len(out)].k = "footer"
              /\ Len(Printed("explanation")) <= 1
              /\ Len(Printed("error")) = Len(SelectSeq(Findings, LAMBDA e : e.k = "error"))

C6_Witness ==
    /\ InCmd /\ cmd = "settle" /\ pc = "done"
    /\ exitCode = 0
    /\ \E k \in 1..Len(calls) : calls[k].f = "ask" /\ calls[k].o.exit = "timeout"
    /\ Printed("explanation") = <<>>
    /\ out[Len(out)].k = "footer"

\* C7: an explanation call whose subprocess timed out, exited non-zero,
\* exceeded the output cap or could not be started returns the empty
\* string: nothing is thrown to the caller (the command goes on to its
\* footer), no explanation is printed, and the subprocess is not called a
\* second time.
C7_FailedExplanationIsEmpty ==
    (InCmd /\ Count("ask") > 0) =>
        /\ Count("ask") = 1
        /\ pc \in {"footer", "done"}
        /\ GhFailed("ask") => explanation = <<>> /\ Printed("explanation") = <<>>

C7_Witness ==
    /\ InCmd /\ cmd = "guard" /\ pc = "footer"
    /\ \E k \in 1..Len(calls) :
          /\ calls[k].f = "ask"
          /\ calls[k].o.exit = "maxbuffer"
          /\ calls[k].o.stdout = <<"T">>
    /\ explanation = <<>>

\* the marker stands somewhere in the output
HasCopilotMarker(stdout) ==
    \E k \in 1..(Len(stdout) - 1) : stdout[k] = "C" /\ stdout[k + 1] = "I"

\* C8: the probe answers true exactly when its subprocess exited
\* successfully in time and its output holds the marker; a timeout, a
\* non-zero exit or a missing marker give false, and the probe never
\* throws: the status line is printed after every probe.
C8_ProbeTrueIffExitAndMarker ==
    (InCmd /\ pc # "start") =>
        /\ Count("probe") = 1
        /\ copilotAvailable =
              (CallsOf("probe")[1].o.exit = "ok"
                 /\ HasCopilotMarker(CallsOf("probe")[1].o.stdout))
        /\ Len(Printed("copilotStatus")) = 1
        /\ Printed("copilotStatus")[1].d = copilotAvailable

C8_Witness ==
    /\ InCmd /\ pc = AfterProbe(cmd)
    /\ Count("probe") = 1
    /\ CallsOf("probe")[1].o = [exit |-> "ok", stdout |-> <<"C", "T", "I">>]
    /\ ~copilotAvailable

OnceOnly == {"guard", "redact", "settlementGuard", "generateTicket",
             "decodeTicket", "validateTicketSync", "ask"}

\* C9: within one invocation the probe is run once, and its answer is the
\* one shown in the status line and the one every enrichment depends on;
\* each adapter is called at most once, validateUrl at most once for each
\* extracted URL; the explanation subprocess is called at most once.
C9_AtMostOnce ==
    InCmd =>
        /\ Count("probe") = (IF pc = "start" THEN 0 ELSE 1)
        /\ \A f \in OnceOnly : Count(f) <= 1
        /\ Count("validateUrl") <= (IF cmd = "ssrf" THEN 1 ELSE NumUrls(input))
        /\ \A k \in 1..Count("validateUrl") :
              CallsOf("validateUrl")[k].a =
                 (IF cmd = "ssrf" THEN opts.url ELSE NthUrl(input, k))
        /\ Count("ask") > 0 => copilotAvailable
        /\ \A k \in 1..Len(Printed("copilotStatus")) :
              Printed("copilotStatus")[k].d = copilotAvailable

C9_Witness ==
    /\ IsScan /\ pc = "done"
    /\ input = <<"u1", "u1">>
    /\ env.ssrfFail = {1, 2}
    /\ Count("validateUrl") = 2
    /\ Count("probe") = 1
    /\ Count("ask") = 1
    /\ GhFailed("ask")

-----------------------------------------------------------------------------
(* cleanOutput alone, on every raw output of RawOutputs *)

InitClean ==
    /\ mode = "clean"
    /\ raw \in RawOutputs
    /\ cleaned = <<>>
    /\ cleanPc = "start"
    /\ cmd = "scan" /\ opts = NoOpts /\ input = <<>> /\ env = NoEnv
    /\ InitLocals

Clean ==
    /\ mode = "clean"
    /\ cleanPc = "start"
    /\ cleaned' = CleanOutput(raw)
    /\ cleanPc' = "done"
    /\ UNCHANGED <<given, raw, pc, locals, out, calls, exitCode>>

NextClean == Clean

SpecClean == InitClean /\ [][NextClean]_vars

\* the text cleanOutput looks for markers in
Stripped == RemoveCR(StripAnsi(raw))

HasAt(s, m, at) == at + Len(m) <= Len(s) /\ SubSeq(s, at + 1, at + Len(m)) = m
MarkerAt(s, ms, at) == \E m \in ms : HasAt(s, m, at)
HasMarker(s, ms) == \E at \in 0..Len(s) : MarkerAt(s, ms, at)
FirstMarker(s, ms) ==
    CHOOSE at \in 0..Len(s) :
        MarkerAt(s, ms, at) /\ \A b \in 0..(at - 1) : ~MarkerAt(s, ms, b)

\* t is s without the whitespace at its two ends
IsTrimOf(t, s) ==
    \E a \in 0..Len(s) : \E b \in a..Len(s) :
        /\ t = SubSeq(s, a + 1, b)
        /\ \A k \in 1..a : s[k] \in Whitespace
        /\ \A k \in (b + 1)..Len(s) : s[k] \in Whitespace
        /\ t # <<>> => t[1] \notin Whitespace /\ t[Len(t)] \notin Whitespace

\* the markers as the code has them, after a newline
LineMarkers == { <<"LF", "T", ":">>, <<"LF", "A", ":">> }
\* the marker texts alone: "Total usage est:" and "API time spent:"
BareMarkers == { <<"T", ":">>, <<"A", ":">> }

\* C10, as amended: when the output, its ANSI sequences and carriage returns
\* removed, holds a marker at the start of a line after a newline, the
\* result is the text before the earliest such marker, trimmed, and no
\* marker preceded by a newline is left in it.
C10_CutAtEarliestLineMarker ==
    (mode = "clean" /\ cleanPc = "done" /\ HasMarker(Stripped, LineMarkers)) =>
        /\ IsTrimOf(cleaned, SubSeq(Stripped, 1, FirstMarker(Stripped, LineMarkers)))
        /\ ~HasMarker(cleaned, LineMarkers)

\* C10, as claimed: a marker text at any position is cut away with all that
\* follows it, and no marker text is left in the result.
C10_CutAtAnyMarker ==
    (mode = "clean" /\ cleanPc = "done" /\ HasMarker(Stripped, BareMarkers)) =>
        /\ IsTrimOf(cleaned, SubSeq(Stripped, 1, FirstMarker(Stripped, BareMarkers)))
        /\ ~HasMarker(cleaned, BareMarkers)

C10_Witness ==
    /\ mode = "clean" /\ cleanPc = "done"
    /\ raw = <<"T", "LF", "T", ":", "LF", "A", ":">>
    /\ cleaned = <<"T">>

-----------------------------------------------------------------------------
(* cleanOutput: what is left of escape sequences and carriage returns *)

HasChar(s, c) == \E k \in 1..Len(s) : s[k] = c

\* C11: the sanitized result holds no escape byte, hence no ANSI escape
\* sequence, and no carriage return; an ANSI sequence followed by body text
\* followed by a usage-marker line gives the body text alone.
C11_NoEscapeNoCarriageReturn ==
    (mode = "clean" /\ cleanPc = "done") =>
        /\ ~HasChar(cleaned, "ESC")
        /\ ~HasChar(cleaned, "CR")
        /\ raw = <<"ESC", "[", "0", "m", "T", "LF", "T", ":">> => cleaned = <<"T">>

-----------------------------------------------------------------------------
(* renderMarkdown alone, on every text of Texts, applied once and again.    *)
(* raw is the text given, cleaned the result of the last application.       *)

RenderChars == {"T", "SP", "LF", "#", "*", "BT"}

Texts == UNION {[1..n -> RenderChars] : n \in 0..MaxText}

InitRender ==
    /\ mode = "render"
    /\ raw \in Texts
    /\ cleaned = <<>>
    /\ cleanPc = "start"
    /\ cmd = "scan" /\ opts = NoOpts /\ input = <<>> /\ env = NoEnv
    /\ InitLocals

Render ==
    /\ mode = "render"
    /\ cleanPc = "start"
    /\ cleaned' = RenderMarkdown(raw)
    /\ cleanPc' = "once"
    /\ UNCHANGED <<given, raw, pc, locals, out, calls, exitCode>>

RenderAgain ==
    /\ mode = "render"
    /\ cleanPc = "once"
    /\ cleaned' = RenderMarkdown(cleaned)
    /\ cleanPc' = "twice"
    /\ UNCHANGED <<given, raw, pc, locals, out, calls, exitCode>>

NextRender == Render \/ RenderAgain

SpecRender == InitRender /\ [][NextRender]_vars

\* position k of t is the first of a line
LineStart(t, k) == k = 1 \/ t[k - 1] = "LF"

\* a line of t starts with one to three '#' and a blank after them
HasHeading(t) ==
    \E k \in 1..Len(t) : \E h \in 1..3 :
        /\ LineStart(t, k)
        /\ k + h <= Len(t)
        /\ \A j \in 0..(h - 1) : t[k + j] = "#"
        /\ t[k + h] \in Whitespace \ {"LF"}

\* positions a..b of t are, on one line, n delimiters d, one or more
\* characters other than d, and n delimiters d
IsSpan(t, a, b, d, n) ==
    /\ b - a + 1 > 2 * n
    /\ \A k \in a..(a + n - 1) : t[k] = d
    /\ \A k \in (b - n + 1)..b : t[k] = d
    /\ \A k \in (a + n)..(b - n) : t[k] # d /\ t[k] # "LF"

HasSpan(t, d, n) == \E a \in 1..Len(t) : \E b \in a..Len(t) : IsSpan(t, a, b, d, n)

\* a span between single '*' that touches no further '*' on either side
HasItalic(t) ==
    \E a \in 1..Len(t) : \E b \in a..Len(t) :
        /\ IsSpan(t, a, b, "*", 1)
        /\ a = 1 \/ t[a - 1] # "*"
        /\ b = Len(t) \/ t[b + 1] # "*"

NoMarkup(t) ==
    /\ ~HasHeading(t)
    /\ ~HasSpan(t, "*", 2)
    /\ ~HasSpan(t, "BT", 1)
    /\ ~HasItalic(t)

\* C12: a text with no heading line, no bold span, no code span and no
\* italic span comes out of renderMarkdown as it went in, and so it does
\* when the result is rendered once more.
C12_NoMarkupUnchanged ==
    (mode = "render" /\ cleanPc \in {"once", "twice"} /\ NoMarkup(raw)) =>
        cleaned = raw

C12_Witness ==
    /\ mode = "render" /\ cleanPc = "twice"
    /\ raw = <<"#", "T", "*", "*", "BT">>
    /\ NoMarkup(raw)
    /\ cleaned = raw

-----------------------------------------------------------------------------
(* The ticket command *)

InTicket(b) == InCmd /\ cmd = "ticket" /\ opts.branch = b

\* the branch of the ticket command has run and did not throw
TicketRan == pc \in {"explain", "footer", "done"}

\* C13: in the validate path, whatever validateTicketSync answered (valid,
\* expired, signature-invalid, malformed), decodeTicket is called once on the
\* supplied token, and the one ticket result printed carries the validation
\* outcome together with the claims whenever decode recovered them.
C13_DecodeAlwaysAttempted ==
    (InTicket("validate") /\ TicketRan) =>
        /\ Count("validateTicketSync") = 1
        /\ Count("decodeTicket") = 1
        /\ CallsOf("decodeTicket")[1].a = opts.token
        /\ Len(Printed("ticket")) = 1
        /\ LET t == Printed("ticket")[1].d
           IN /\ t.label = (IF ticketResult.valid THEN "VALID" ELSE "INVALID")
              /\ ~ticketResult.valid => t.errorCode = ticketResult.errorCode
              /\ decoded # <<>> =>
                    /\ t.level = decoded[1].auditLevel
                    /\ t.maxOpValue = decoded[1].max_op_value
                    /\ t.killSwitch # "none"
              /\ decoded = <<>> => t.level = "Unknown"

C13_Witness ==
    /\ InTicket("validate") /\ pc = "done"
    /\ opts.token.wellFormed /\ ~opts.token.sigOk
    /\ opts.token.claims.auditLevel = "Gold"
    /\ ticketResult.errorCode = "signature-invalid"
    /\ Count("decodeTicket") = 1
    /\ Printed("ticket")[1].d.label = "INVALID"
    /\ Printed("ticket")[1].d.level = "Gold"

ShownValid == \E k \in 1..Len(Printed("ticket")) : Printed("ticket")[k].d.label = "VALID"

\* C14: a supplied token is shown to the operator as VALID only when
\* validateTicketSync was called on it and answered valid; the decode path,
\* which does not validate, never shows a token as VALID.
C14_ValidOnlyWhenValidated ==
    (InCmd /\ cmd = "ticket" /\ opts.branch \in {"decode", "validate"}) =>
        /\ ShownValid => Count("validateTicketSync") = 1 /\ ticketResult.valid
        /\ opts.branch = "decode" => ~ShownValid

\* C15: validateTicketSync answers one error code, by fixed precedence:
\* malformed for a token that does not parse, before any look at the
\* signature; signature-invalid for a well-formed token whose signature
\* does not verify; expired, with valid false, for a well-formed, correctly
\* signed token past its expiry; valid, with no error code, only when none of
\* these holds.  The command prints the code it was given.
C15_ErrorPrecedence ==
    (InTicket("validate") /\ TicketRan) =>
        LET t == opts.token
            r == ticketResult
        IN /\ ~t.wellFormed => r.errorCode = "malformed"
           /\ (t.wellFormed /\ ~t.sigOk) => r.errorCode = "signature-invalid"
           /\ (t.wellFormed /\ t.sigOk /\ t.expired) => r.errorCode = "expired"
           /\ r.valid <=> (t.wellFormed /\ t.sigOk /\ ~t.expired)
           /\ r.valid <=> r.errorCode = ""
           /\ Len(Printed("ticket")) = 1
           /\ Printed("ticket")[1].d.errorCode = r.errorCode

C15_Witness ==
    /\ InTicket("validate") /\ pc = "done"
    /\ opts.token.wellFormed /\ opts.token.sigOk /\ opts.token.expired
    /\ ticketResult = [valid |-> FALSE, errorCode |-> "expired"]
    /\ Printed("ticket")[1].d.errorCode = "expired"

\* the supplied token with the kill-switch flag of its claims turned over
OtherKillSwitch(token) ==
    [token EXCEPT !.claims.kill_switch_active = ~token.claims.kill_switch_active]

\* C16: the kill switch is informational.  The validity and error code shown
\* for a validated token are those validateTicketSync answered, the answer is
\* the same for the token with the flag turned over, and the flag decides
\* the displayed constraint line alone.
C16_KillSwitchInformational ==
    (InTicket("validate") /\ TicketRan) =>
        LET t == Printed("ticket")[1].d
        IN /\ ticketResult = ValidateTicketSync(OtherKillSwitch(opts.token))
           /\ t.label = (IF ticketResult.valid THEN "VALID" ELSE "INVALID")
           /\ t.errorCode = ticketResult.errorCode
           /\ decoded # <<>> =>
                 t.killSwitch = (IF opts.token.claims.kill_switch_active
                                 THEN "ACTIVE" ELSE "inactive")

C16_Witness ==
    /\ InTicket("validate") /\ pc = "done"
    /\ opts.token.claims.kill_switch_active
    /\ ticketResult.valid
    /\ Printed("ticket")[1].d.label = "VALID"
    /\ Printed("ticket")[1].d.killSwitch = "ACTIVE"

\* the audit levels from the lowest to the highest
LevelOrder == <<"Bronze", "Silver", "Gold", "Platinum">>
LevelRank(l) == CHOOSE k \in 1..Len(LevelOrder) : LevelOrder[k] = l

\* C17: a generated ticket decodes to the agent and audit level asked for,
\* with a max single-operation value of 100, 1000, 5000, 10000 for Bronze,
\* Silver, Gold, Platinum, strictly increasing in the level, so that the
\* ceiling of a Gold ticket is not the lowest one; it requires payment
\* exactly when the level is above Bronze.
C17_GenerateDefaults ==
    (InTicket("generate") /\ TicketRan) =>
        LET ceiling == <<100, 1000, 5000, 10000>>
            c == decoded[1]
            t == Printed("ticket")[1].d
        IN /\ decoded # <<>>
           /\ c.agentId = opts.agent
           /\ c.auditLevel = opts.level
           /\ c.max_op_value = ceiling[LevelRank(opts.level)]
           /\ \A l \in Levels :
                 LevelRank(l) < LevelRank(opts.level) =>
                    MaxOpValue(l) < c.max_op_value
           /\ opts.level = "Gold" => c.max_op_value # MaxOpValue("Bronze")
           /\ c.requires_x402_payment <=> LevelRank(opts.level) > 1
           /\ ~c.kill_switch_active
           /\ t.level = opts.level /\ t.maxOpValue = c.max_op_value

C17_Witness ==
    /\ InTicket("generate") /\ pc = "done"
    /\ opts.agent = "agent-001" /\ opts.level = "Gold"
    /\ decoded[1].auditLevel = "Gold"
    /\ decoded[1].max_op_value = 5000
    /\ decoded[1].requires_x402_payment
    /\ Printed("ticket")[1].d.level = "Gold"

-----------------------------------------------------------------------------
(* How a command ends *)

\* a printed finding that blocks or invalidates
BadFinding ==
    \E k \in 1..Len(out) :
        /\ out[k].k \in {"guard", "ssrf", "settle", "ticket"}
        /\ out[k].d.label \in {"BLOCKED", "INVALID"}

HandlerError == P("error", "Unexpected error")

\* C18: a command that runs to its footer ends with exit status 0 whatever
\* it found; the status is 1 only after the unhandledRejection handler ran,
\* which takes an adapter call that threw; before the end there is no status.
C18_ExitZeroOnCompletion ==
    InCmd =>
        /\ pc = "done" <=> exitCode = 0
        /\ pc = "exited" <=> exitCode = 1
        /\ exitCode \in {-1, 0, 1}
        /\ pc = "done" => out[Len(out)].k = "footer"
        /\ exitCode = 1 =>
              /\ AdapterThrows
              /\ out[Len(out)].k = "error" /\ out[Len(out)].d = HandlerError.d

C18_Witness ==
    /\ IsScan /\ pc = "done" /\ exitCode = 0
    /\ env.guard.classification = "block"
    /\ env.ssrfFail # {}
    /\ BadFinding

\* an adapter call whose failure no try/catch of the action takes
CallThrew(c) ==
    \/ c.f = "guard" /\ env.guard.throws
    \/ c.f = "redact" /\ env.redact.throws
    \/ c.f = "settlementGuard" /\ env.settle.throws
    \/ c.f \in {"generateTicket", "decodeTicket", "validateTicketSync"} /\ env.ticketThrows

SomeCallThrew == \E k \in 1..Len(calls) : CallThrew(calls[k])

HandlerErrors == SelectSeq(Printed("error"), LAMBDA e : e.d = HandlerError.d)

\* C19: once an adapter call has thrown inside an action, the action is
\* over: the call is the last one made, no explanation and no footer is
\* printed, the unhandledRejection handler is what runs next, and when it
\* has run the error was printed once, last, and the exit status is 1.
\* Nothing else leads to the handler.
C19_UnhandledErrorReportedOnce ==
    InCmd =>
        /\ SomeCallThrew <=> pc \in {"rejected", "exited"}
        /\ SomeCallThrew =>
              /\ CallThrew(calls[Len(calls)])
              /\ \A k \in 1..(Len(calls) - 1) : ~CallThrew(calls[k])
              /\ Printed("footer") = <<>>
              /\ Printed("explanation") = <<>>
        /\ pc = "rejected" => ENABLED UnhandledRejection /\ HandlerErrors = <<>>
        /\ pc = "exited" =>
              /\ Len(HandlerErrors) = 1
              /\ out[Len(out)].k = "error"
              /\ exitCode = 1
        /\ pc \notin {"rejected", "exited"} => HandlerErrors = <<>>

C19_Witness ==
    /\ IsScan /\ pc = "exited"
    /\ ~env.guard.throws /\ env.redact.throws
    /\ Len(Printed("guard")) = 1
    /\ calls[Len(calls)].f = "redact"
    /\ Len(HandlerErrors) = 1
    /\ exitCode = 1

-----------------------------------------------------------------------------
(* The explanation requests of a scan *)

AsksOfKind(kind) == SelectSeq(CallsOf("ask"), LAMBDA c : c.a.kind = kind)

\* C20, as amended: a scan asks the explanation engine for the combined
\* assessment alone, once, after the last URL check, with the guard and
\* redaction results and the URLs in the request, when the probe said
\* available; it makes no request for a single step, and none at all when
\* the probe said unavailable.
C20_OneCombinedRequest ==
    IsScan =>
        /\ Count("ask") <= 1
        /\ \A k \in 1..Count("ask") : CallsOf("ask")[k].a.kind = "full"
        /\ pc = "done" => Count("ask") = (IF copilotAvailable THEN 1 ELSE 0)
        /\ Count("ask") = 1 =>
              LET q == CallsOf("ask")[1].a
              IN /\ calls[Len(calls)].f = "ask"
                 /\ Count("validateUrl") = NumUrls(input)
                 /\ q.input = input
                 /\ q.guard.classification = env.guard.classification
                 /\ q.redact.count = Len(env.redact.findings)
                 /\ Len(q.urls) = NumUrls(input)
        /\ Len(Printed("explanation")) <= 1
        /\ \A k \in 1..Len(Printed("explanation")) :
              Printed("explanation")[k].d.title = "Threat Assessment"

\* C20, as claimed: with the engine available a finished scan has made one
\* request for each step (guard, redaction, URL validation) and one for the
\* combined assessment; with the engine unavailable, none.
C20_EnrichmentPerStep ==
    (IsScan /\ pc = "done") =>
        IF copilotAvailable
        THEN /\ Count("ask") = 4
             /\ \A kind \in {"guard", "redact", "ssrf", "full"} :
                   Len(AsksOfKind(kind)) = 1
        ELSE Count("ask") = 0

C20_Witness ==
    /\ IsScan /\ pc = "done" /\ copilotAvailable
    /\ env.guard.classification = "block"
    /\ env.redact.findings # <<>>
    /\ NumUrls(input) = 1
    /\ Count("ask") = 1
    /\ CallsOf("ask")[1].a.kind = "full"
    /\ Len(Printed("explanation")) = 1

-----------------------------------------------------------------------------
(* Termination *)

Terminated == pc \in {"done", "exited"}

TimedOut(f) == \E k \in 1..Len(calls) : calls[k].f = f /\ calls[k].o.exit = "timeout"

\* a subprocess call that ran into its timeout is a failed call with empty
\* output: the probe says unavailable, the explanation is empty and nothing
\* is printed for it, and the action is neither rejected nor held up
TimeoutDegrades ==
    InCmd =>
        /\ TimedOut("probe") => ~copilotAvailable /\ Count("ask") = 0
        /\ TimedOut("ask") => explanation = <<>> /\ Printed("explanation") = <<>>
        /\ (TimedOut("probe") \/ TimedOut("ask")) /\ ~AdapterThrows =>
              pc \notin {"rejected", "exited"}
        /\ ~Terminated => ENABLED Next

\* C21: every command invocation comes to its end, the footer printed or
\* the error exit taken, and stays there; a probe or explanation call that
\* timed out counts as failed with empty output and the invocation goes on.
C21_Terminates ==
    /\ []TimeoutDegrades
    /\ <>[](InCmd => Terminated /\ out[Len(out)].k \in {"footer", "error"})

C21_Witness ==
    /\ IsScan /\ pc = "done"
    /\ copilotAvailable
    /\ TimedOut("ask")
    /\ NumUrls(input) = 1
    /\ out[Len(out)].k = "footer"

-----------------------------------------------------------------------------
(* A token that does not decode *)

\* the decode or validate path was given a token decodeTicket cannot read,
\* and the ticket calls return
UndecodableGiven ==
    /\ InCmd /\ cmd = "ticket" /\ opts.branch \in {"decode", "validate"}
    /\ ~opts.token.wellFormed
    /\ ~env.ticketThrows

\* C22: for a token that does not decode, the decode path prints the decode
\* failure message and the validate path an INVALID result with its error
\* code; no explanation is requested, the action is not rejected, it can
\* always take its next step and it ends with the footer, status 0.
C22_UndecodableTokenReported ==
    UndecodableGiven =>
        /\ Count("ask") = 0
        /\ pc \in {"start", "run", "footer", "done"}
        /\ pc # "done" => ENABLED Next
        /\ pc \in {"footer", "done"} =>
              /\ decoded = <<>>
              /\ opts.branch = "decode" =>
                    /\ Len(Printed("error")) = 1
                    /\ Printed("error")[1].d = DecodeFailed
                    /\ Printed("ticket") = <<>>
              /\ opts.branch = "validate" =>
                    /\ Printed("error") = <<>>
                    /\ Len(Printed("ticket")) = 1
                    /\ Printed("ticket")[1].d.label = "INVALID"
                    /\ Printed("ticket")[1].d.errorCode # ""
                    /\ Printed("ticket")[1].d.level = "Unknown"
        /\ pc = "done" => out[Len(out)].k = "footer" /\ exitCode = 0

C22_Witness ==
    /\ UndecodableGiven /\ opts.branch = "validate" /\ pc = "done"
    /\ copilotAvailable
    /\ Count("ask") = 0
    /\ Printed("ticket")[1].d.label = "INVALID"
    /\ Printed("ticket")[1].d.errorCode = "malformed"
    /\ out[Len(out)].k = "footer"

-----------------------------------------------------------------------------
(* The commands other than scan *)

\* the adapter call of a command; for ticket, the decode every branch makes
AdapterOf(c) ==
    CASE c = "guard" -> "guard"
      [] c = "redact" -> "redact"
      [] c = "settle" -> "settlementGuard"
      [] c = "ssrf" -> "validateUrl"
      [] c = "ticket" -> "decodeTicket"

\* what the command asks of its result before it requests an explanation
WorthExplaining ==
    CASE cmd = "guard" -> env.guard.classification = "block"
      [] cmd = "redact" -> env.redact.findings # <<>>
      [] cmd = "ticket" -> decoded # <<>>
      [] OTHER -> TRUE

\* C23: a command other than scan calls its adapter once and before any
\* explanation request; it requests an explanation, once and about its own
\* result, only if the probe said available and the guard classification is
\* block, the redaction has a finding, the ticket decoded to claims, and in
\* every case for settle and ssrf; a finished command has made the request
\* exactly in these cases, and none when the probe said unavailable.
C23_SingleAdapterThenExplain ==
    (InCmd /\ cmd # "scan") =>
        /\ cmd # "ticket" =>
              Count(AdapterOf(cmd)) = (IF pc \in {"start", "run"} THEN 0 ELSE 1)
        /\ \A f \in {"generateTicket", "decodeTicket", "validateTicketSync"} : Count(f) <= 1
        /\ Count("ask") <= 1
        /\ Count("ask") = 1 =>
              /\ copilotAvailable
              /\ WorthExplaining
              /\ Count(AdapterOf(cmd)) = 1
              /\ calls[Len(calls)].f = "ask"
              /\ calls[Len(calls)].a.kind = cmd
        /\ pc = "done" => (Count("ask") = 1 <=> (copilotAvailable /\ WorthExplaining))
        /\ ~copilotAvailable => Count("ask") = 0

C23_Witness ==
    /\ InCmd /\ cmd = "guard" /\ pc = "done"
    /\ copilotAvailable
    /\ env.guard.classification = "block"
    /\ Len(calls) = 3
    /\ calls[2].f = "guard" /\ calls[3].f = "ask"
    /\ calls[3].a.kind = "guard"

-----------------------------------------------------------------------------
(* The URLs of the combined assessment *)

\* C24: the combined assessment request of a scan names every extracted
\* URL, in order, with the outcome its validation recorded: safe when the
\* validateUrl call went through, blocked when it failed.
C24_AssessmentCarriesUrlOutcomes ==
    (IsScan /\ Count("ask") = 1) =>
        LET q == CallsOf("ask")[1].a
        IN /\ Len(q.urls) = Len(ssrfResults)
           /\ \A k \in 1..Len(q.urls) :
                 /\ q.urls[k].url = ssrfResults[k].url
                 /\ q.urls[k].safe = ssrfResults[k].safe
                 /\ k \in env.ssrfFail => ~q.urls[k].safe

====
